---- MODULE Spec2Model ----
(***************************************************************************)
(* Model of the stock-tech-fib worker: the outbound QueueSender            *)
(* (src/src/app/queue_sender.py), the per-message consumer pipeline that   *)
(* drives it, and the Fibonacci level calculator                           *)
(* (src/src/app/processor.py).                                             *)
(***************************************************************************)
EXTENDS Integers, Sequences, FiniteSets, TLC

VARIABLES
    \* ---- QueueSender fields and constructor position
    pc,           \* "new" | "connecting" | "sleeping" | "ready" | "failed"
    queue_type,   \* self.queue_type ("unset" before construction)
    connection,   \* self.connection: 0 is None, otherwise the attempt that opened it
    channel,      \* self.channel: 0 is None, otherwise the attempt that opened it
    sqs_client,   \* self.sqs_client is not None
    attempt,      \* loop variable of _connect_to_rabbitmq (0 before the loop)
    sleeps,       \* number of time.sleep(5) calls made
    error,        \* exception raised by the constructor ("none" if none)
    \* ---- the backends
    is_open,      \* self.connection.is_open (FALSE while self.connection is None)
    chan_open,    \* self.channel.is_open (FALSE while self.channel is None)
    orphans,      \* number of open connections the sender no longer references
    outbox,       \* ids of the messages whose result the backend accepted
    last,         \* the last event: [op, raised, ret, arg]
    \* ---- the consumer
    arrived,      \* every inbound message produced so far, in order (id = index)
    live,         \* the live inbound queue (unacknowledged messages)
    cur,          \* the message being processed (NoMsg when idle)
    cpc,          \* per-message position of the consumer
    dlq,          \* the dead-letter destination
    acked,        \* ids of acknowledged messages
    analyzed,     \* ids of messages the analysis transform was invoked on
    sendAttempted,\* ids of messages whose result was passed to send_message
    \* ---- calculate_fibonacci_levels
    fin,          \* arguments of the last call
    fout,         \* what the last call returned
    \* ---- next_version
    vin,          \* arguments of the last call
    vout          \* what the last call returned or raised

senderVars == <<pc, queue_type, connection, channel, sqs_client, attempt, sleeps, error>>
brokerVars == <<is_open, chan_open, orphans, outbox>>
consumerVars == <<arrived, live, cur, cpc, dlq, acked, analyzed, sendAttempted>>
fibVars == <<fin, fout>>
verVars == <<vin, vout>>
vars == <<senderVars, brokerVars, last, consumerVars, fibVars, verVars>>

----------------------------------------------------------------------------
(* Bounds *)

MaxMsgs == 2

\* retries = 5 in _connect_to_rabbitmq
retries == 5

QueueTypes == {"rabbitmq", "sqs", "kafka"}
MsgKinds == {"wellformed", "nodata", "undecodable"}
NoMsg == [id |-> 0, kind |-> "none"]
Event(op, raised, ret) == [op |-> op, raised |-> raised, ret |-> ret, arg |-> 0]

----------------------------------------------------------------------------
(* QueueSender.__init__ *)

\* the if / elif / else on self.queue_type
InitBranchFallthrough(qt) ==
    IF qt = "sqs" THEN "sqs" ELSE "rabbitmq"

InitBranch(qt) ==
    IF qt = "sqs" THEN "sqs"
    ELSE IF qt = "rabbitmq" THEN "rabbitmq"
    ELSE "ValueError"

Construct(qt) ==
    /\ pc = "new"
    /\ queue_type' = qt
    /\ connection' = 0
    /\ channel' = 0
    /\ attempt' = 0
    /\ sleeps' = 0
    /\ UNCHANGED <<brokerVars, consumerVars, fibVars, verVars>>
    /\ CASE InitBranch(qt) = "sqs" ->
              \* boto3.client(...) returns a client or raises
              \E ok \in BOOLEAN :
                  /\ sqs_client' = ok
                  /\ pc' = IF ok THEN "ready" ELSE "failed"
                  /\ error' = IF ok THEN "none" ELSE "BotoCoreError"
                  /\ last' = Event("__init__", ~ok, "None")
         [] InitBranch(qt) = "rabbitmq" ->
              /\ sqs_client' = FALSE
              /\ pc' = "connecting"
              /\ error' = "none"
              /\ last' = Event("connect", FALSE, "None")
         [] OTHER ->
              /\ sqs_client' = FALSE
              /\ pc' = "failed"
              /\ error' = "ValueError"
              /\ last' = Event("__init__", TRUE, "None")

\* self.connection = pika.BlockingConnection(params) drops the reference to
\* the connection held so far; if that one is open it stays open, unreferenced
Rebind == orphans + (IF connection # 0 /\ is_open THEN 1 ELSE 0)

(* QueueSender._connect_to_rabbitmq: one iteration of the loop up to the
   return or the except clause *)
ConnectAttempt ==
    /\ pc = "connecting"
    /\ attempt' = attempt + 1
    /\ UNCHANGED <<queue_type, sqs_client, sleeps, error, outbox, consumerVars, fibVars, verVars>>
    /\ \/ \* pika.BlockingConnection(params) raises
          /\ pc' = "sleeping"
          /\ UNCHANGED <<connection, channel, is_open, chan_open, orphans>>
          /\ last' = Event("attempt", TRUE, "None")
       \/ \* the connection opens, connection.channel() raises; the connection
          \* is lost with it or stays open
          /\ connection' = attempt + 1
          /\ orphans' = Rebind
          /\ \E stays \in BOOLEAN : is_open' = stays
          /\ pc' = "sleeping"
          /\ UNCHANGED <<channel, chan_open>>
          /\ last' = Event("attempt", TRUE, "None")
       \/ \* both succeed: return
          /\ connection' = attempt + 1
          /\ orphans' = Rebind
          /\ is_open' = TRUE
          /\ channel' = attempt + 1
          /\ chan_open' = TRUE
          /\ pc' = "ready"
          /\ last' = Event("__init__", FALSE, "None")

\* where control goes after the except clause's sleep: the next iteration, or
\* past the loop to raise ConnectionError
AfterSleepNoRaise(a) ==
    IF a < retries THEN "connecting" ELSE "ready"

AfterSleep(a) ==
    IF a < retries THEN "connecting" ELSE "failed"

Sleep ==
    /\ pc = "sleeping"
    /\ sleeps' = sleeps + 1
    /\ pc' = AfterSleep(attempt)
    /\ error' = IF pc' = "failed" THEN "ConnectionError" ELSE error
    /\ last' = IF pc' = "connecting" THEN Event("sleep", FALSE, "None")
               ELSE Event("__init__", pc' = "failed", "None")
    /\ UNCHANGED <<queue_type, connection, channel, sqs_client, attempt,
                   brokerVars, consumerVars, fibVars, verVars>>

----------------------------------------------------------------------------
(* QueueSender.send_message *)

\* channel.basic_publish / sqs_client.send_message raises
PublishFails(accepts) ==
    IF queue_type = "rabbitmq"
    THEN channel = 0 \/ ~chan_open \/ ~accepts
    ELSE ~sqs_client \/ ~accepts

\* the message reaches the backend
Handed(serializable, accepts) ==
    serializable /\ ~PublishFails(accepts)

send_message_swallows(serializable, accepts) ==
    ~serializable

send_message_logs_only(serializable, accepts) ==
    FALSE

\* send_message raises: json.dumps raised, or the except clause re-raised
send_message_raises(serializable, accepts) ==
    ~serializable \/ PublishFails(accepts)

send_message(id, serializable, accepts) ==
    /\ outbox' = IF Handed(serializable, accepts) THEN outbox \cup {id} ELSE outbox
    /\ last' = [Event("send_message", send_message_raises(serializable, accepts), "None")
                   EXCEPT !.arg = id]
    /\ UNCHANGED <<senderVars, is_open, chan_open, orphans>>

(* QueueSender.close *)

close_unguarded == TRUE

\* if self.connection and self.connection.is_open
close_guard == connection # 0 /\ is_open

\* self.connection.close(): pika closes the connection and its channels, and
\* raises on None or on a connection that is not open
connection_close ==
    IF connection # 0 /\ is_open
    THEN /\ is_open' = FALSE
         /\ chan_open' = FALSE
         /\ last' = Event("close", FALSE, "None")
    ELSE /\ UNCHANGED <<is_open, chan_open>>
         /\ last' = Event("close", TRUE, "None")

Close ==
    /\ pc = "ready"
    /\ IF close_guard
       THEN connection_close
       ELSE /\ UNCHANGED <<is_open, chan_open>>
            /\ last' = Event("close", FALSE, "None")
    /\ UNCHANGED <<senderVars, orphans, outbox, consumerVars, fibVars, verVars>>

(* QueueSender.flush *)

flush_closes ==
    /\ is_open' = FALSE
    /\ chan_open' = FALSE

flush_drops_channel ==
    /\ chan_open' = FALSE
    /\ UNCHANGED is_open

\* logger.debug(...) and nothing else: the connection and the channel stay
\* as they are
flush_body == UNCHANGED <<is_open, chan_open>>

Flush ==
    /\ pc = "ready"
    /\ flush_body
    /\ last' = Event("flush", FALSE, "None")
    /\ UNCHANGED <<senderVars, orphans, outbox, consumerVars, fibVars, verVars>>

(* QueueSender.health_check *)
health_check_not_none ==
    IF queue_type = "rabbitmq" THEN connection # 0
    ELSE IF queue_type = "sqs" THEN sqs_client
    ELSE FALSE

health_check ==
    IF queue_type = "rabbitmq"
    THEN (IF connection # 0 THEN is_open ELSE FALSE)
    ELSE IF queue_type = "sqs" THEN sqs_client
    ELSE FALSE

HealthCheck ==
    /\ pc = "ready"
    /\ last' = Event("health_check", FALSE, IF health_check THEN "True" ELSE "False")
    /\ UNCHANGED <<senderVars, brokerVars, consumerVars, fibVars, verVars>>

(* The broker drops the connection the sender holds, closes its channel
   alone, or drops a connection the sender no longer references *)
BrokerDrop ==
    /\ connection # 0 /\ is_open
    /\ is_open' = FALSE
    /\ chan_open' = FALSE
    /\ last' = Event("broker_drop", FALSE, "None")
    /\ UNCHANGED <<senderVars, orphans, outbox, consumerVars, fibVars, verVars>>

BrokerCloseChannel ==
    /\ channel # 0 /\ chan_open
    /\ chan_open' = FALSE
    /\ last' = Event("broker_close_channel", FALSE, "None")
    /\ UNCHANGED <<senderVars, is_open, orphans, outbox, consumerVars, fibVars, verVars>>

BrokerDropOrphan ==
    /\ orphans > 0
    /\ orphans' = orphans - 1
    /\ last' = Event("broker_drop_orphan", FALSE, "None")
    /\ UNCHANGED <<senderVars, is_open, chan_open, outbox, consumerVars, fibVars, verVars>>

----------------------------------------------------------------------------
(* The consumer: Received -> Decoded -> Processed -> {Acked, DeadLettered},
   one message at a time *)

\* a producer puts a message on the inbound queue
Arrive(kind) ==
    /\ Len(arrived) < MaxMsgs
    /\ arrived' = Append(arrived, [id |-> Len(arrived) + 1, kind |-> kind])
    /\ live' = Append(live, [id |-> Len(arrived) + 1, kind |-> kind])
    /\ UNCHANGED <<senderVars, brokerVars, last, cur, cpc, dlq, acked, analyzed,
                   sendAttempted, fibVars, verVars>>

Receive ==
    /\ pc = "ready"
    /\ cpc = "idle"
    /\ live # << >>
    /\ cur' = Head(live)
    /\ cpc' = "received"
    /\ UNCHANGED <<senderVars, brokerVars, last, arrived, live, dlq, acked, analyzed,
                   sendAttempted, fibVars, verVars>>

DecodeAlways(kind) == "decoded"

\* decode failure routes the message to the dead-letter destination
DecodeTarget(kind) ==
    IF kind = "undecodable" THEN "deadlettered" ELSE "decoded"

Decode ==
    /\ cpc = "received"
    /\ cpc' = DecodeTarget(cur.kind)
    /\ dlq' = IF cpc' = "deadlettered" THEN Append(dlq, cur) ELSE dlq
    /\ UNCHANGED <<senderVars, brokerVars, last, arrived, live, cur, acked, analyzed,
                   sendAttempted, fibVars, verVars>>

\* AnalysisTransform.analyze never throws: a data error is a result too
Analyze ==
    /\ cpc = "decoded"
    /\ analyzed' = analyzed \cup {cur.id}
    /\ cpc' = "processed"
    /\ UNCHANGED <<senderVars, brokerVars, last, arrived, live, cur, dlq, acked,
                   sendAttempted, fibVars, verVars>>

\* what the consumer does with the outcome of send_message
SendTarget(raised) ==
    IF raised THEN "deadlettered" ELSE "sent"

Send ==
    /\ cpc = "processed"
    /\ sendAttempted' = sendAttempted \cup {cur.id}
    /\ \E serializable \in BOOLEAN, accepts \in BOOLEAN :
           send_message(cur.id, serializable, accepts)
    /\ cpc' = SendTarget(last'.raised)
    /\ dlq' = IF cpc' = "deadlettered" THEN Append(dlq, cur) ELSE dlq
    /\ UNCHANGED <<arrived, live, cur, acked, analyzed, fibVars, verVars>>

AckEarly(p) == p \in {"decoded", "processed", "sent", "deadlettered"}

\* the positions in which the consumer acknowledges
AckReady(p) == p \in {"sent", "deadlettered"}

Ack ==
    /\ AckReady(cpc)
    /\ acked' = acked \cup {cur.id}
    /\ live' = SelectSeq(live, LAMBDA m : m.id # cur.id)
    /\ cur' = NoMsg
    /\ cpc' = "idle"
    /\ UNCHANGED <<senderVars, brokerVars, last, arrived, dlq, analyzed,
                   sendAttempted, fibVars, verVars>>

----------------------------------------------------------------------------
(* calculate_fibonacci_levels (src/src/app/processor.py).  Prices are whole
   cents; a product of a price and a ratio is in thousandths of a cent. *)

MaxBars == 2
MaxCents == 4

None == [k |-> "none", v |-> 0]
NaN == [k |-> "nan", v |-> 0]
Absent == [k |-> "absent", v |-> 0]    \* the bar has no such key
Bad == [k |-> "str", v |-> 0]          \* a non-numeric string
Raise == [k |-> "raise", v |-> 0]      \* an exception inside the try block
Num(n) == [k |-> "num", v |-> n]

\* ratios in thousandths
RETRACEMENT_LEVELS == <<236, 382, 500, 618, 786>>
EXTENSION_LEVELS == <<1272, 1618, 2000, 2618>>

Methods == {"retracement", "extension", "projection"}

Bars == {
    [High |-> Num(11000), Low |-> Num(9500)],
    [High |-> Num(10500), Low |-> Num(9000)],
    [High |-> Num(1), Low |-> Num(0)],
    [High |-> Absent, Low |-> Num(9500)],
    [High |-> Num(10500), Low |-> Absent],
    [High |-> NaN, Low |-> NaN],
    [High |-> Bad, Low |-> Num(9000)],
    [High |-> Absent, Low |-> Absent] }

Histories == UNION {[1..n -> Bars] : n \in 0..MaxBars}
Overrides == {None} \cup {Num(p) : p \in (0 - 1)..MaxCents}

SetMax(S) == CHOOSE x \in S : \A y \in S : y <= x
SetMin(S) == CHOOSE x \in S : \A y \in S : x <= y

\* data.get(field, pd.Series(dtype=float)): the column exists when some bar
\* has the key, and holds NaN for the bars without it
Column(data, field) ==
    IF \E i \in DOMAIN data : data[i][field].k # "absent"
    THEN [i \in DOMAIN data |->
             IF data[i][field].k = "absent" THEN NaN ELSE data[i][field]]
    ELSE << >>

\* series.max() / series.min(), then float(value) if pd.notna(value) else None
DeriveZero(data, field, isMax) ==
    LET col == Column(data, field)
        nums == {col[i].v : i \in {j \in DOMAIN col : col[j].k = "num"}}
    IN  IF \E i \in DOMAIN col : col[i].k = "str" THEN Raise
        ELSE IF nums = {} THEN Num(0)
        ELSE Num(IF isMax THEN SetMax(nums) ELSE SetMin(nums))

Derive(data, field, isMax) ==
    LET col == Column(data, field)
        nums == {col[i].v : i \in {j \in DOMAIN col : col[j].k = "num"}}
    IN  IF \E i \in DOMAIN col : col[i].k = "str" THEN Raise
        ELSE IF nums = {} THEN None
        ELSE Num(IF isMax THEN SetMax(nums) ELSE SetMin(nums))

SwingHighFromHistory(data, swing_high) ==
    LET derived == Derive(data, "High", TRUE)
    IN  IF derived.k = "num" THEN derived ELSE swing_high

\* lines 105-109 and 111-115
SwingHigh(data, swing_high) ==
    IF swing_high = None THEN Derive(data, "High", TRUE) ELSE swing_high

SwingLow(data, swing_low) ==
    IF swing_low = None THEN Derive(data, "Low", FALSE) ELSE swing_low

\* round(price, 2): thousandths of a cent to whole cents.  An exact half is
\* not representable in binary, so either neighbour can come out.
Round2(x, tieUp) ==
    LET q == x \div 1000
        rem == x % 1000
    IN  IF rem > 500 THEN q + 1
        ELSE IF rem < 500 THEN q
        ELSE IF tieUp THEN q + 1 ELSE q

RetracementPriceAdded(high, low, level) ==
    high * 1000 + (high - low) * level

\* swing_high - (swing_high - swing_low) * level
RetracementPrice(high, low, level) ==
    high * 1000 - (high - low) * level

\* swing_high + (swing_high - swing_low) * (level - 1)
ExtensionPrice(high, low, level) ==
    high * 1000 + (high - low) * (level - 1000)

RetracementLabelRounded(level) == [kind |-> "%", n |-> (level * 100 + 500) \div 1000]

\* f"{int(level * 100)}%"
RetracementLabel(level) == [kind |-> "%", n |-> (level * 100) \div 1000]

\* f"{level:.3f}x"
ExtensionLabel(level) == [kind |-> "x", n |-> level]

\* the last position of the loop that writes label lab (a later level
\* overwrites an equal label)
LastRetracement(lab) ==
    SetMax({i \in DOMAIN RETRACEMENT_LEVELS :
               RetracementLabel(RETRACEMENT_LEVELS[i]) = lab})

LastExtension(lab) ==
    SetMax({i \in DOMAIN EXTENSION_LEVELS :
               ExtensionLabel(EXTENSION_LEVELS[i]) = lab})

\* the dict built by the for loop over RETRACEMENT_LEVELS
RetracementLevels(high, low, tieUp) ==
    [lab \in {RetracementLabel(RETRACEMENT_LEVELS[i]) : i \in DOMAIN RETRACEMENT_LEVELS} |->
        Round2(RetracementPrice(high, low, RETRACEMENT_LEVELS[LastRetracement(lab)]),
               tieUp)]

\* the dict built by the for loop over EXTENSION_LEVELS
ExtensionLevels(high, low, tieUp) ==
    [lab \in {ExtensionLabel(EXTENSION_LEVELS[i]) : i \in DOMAIN EXTENSION_LEVELS} |->
        Round2(ExtensionPrice(high, low, EXTENSION_LEVELS[LastExtension(lab)]),
               tieUp)]

EmptyLevels == [lab \in {} |-> 0]

calculate_fibonacci_levels(data, method, swing_high, swing_low, tieUp) ==
    LET high == SwingHigh(data, swing_high)
        low == SwingLow(data, swing_low)
    IN  IF high = Raise \/ low = Raise THEN EmptyLevels   \* except Exception
        ELSE IF high = None \/ low = None THEN EmptyLevels
        ELSE IF method = "retracement" THEN RetracementLevels(high.v, low.v, tieUp)
        ELSE IF method = "extension" THEN ExtensionLevels(high.v, low.v, tieUp)
        ELSE EmptyLevels

NoCall == [data |-> << >>, method |-> "none", swing_high |-> None,
           swing_low |-> None, tieUp |-> FALSE]

Calculate ==
    /\ fin.method = "none"
    /\ \E data \in Histories, method \in Methods, swing_high \in Overrides,
          swing_low \in Overrides, tieUp \in BOOLEAN :
          /\ fin' = [data |-> data, method |-> method, swing_high |-> swing_high,
                     swing_low |-> swing_low, tieUp |-> tieUp]
          /\ fout' = [levels |-> calculate_fibonacci_levels(data, method, swing_high,
                                                           swing_low, tieUp),
                      raised |-> FALSE]
    /\ UNCHANGED <<senderVars, brokerVars, last, consumerVars, verVars>>

\* the caller drops the result
Discard ==
    /\ fin.method # "none"
    /\ fin' = NoCall
    /\ fout' = [levels |-> EmptyLevels, raised |-> FALSE]
    /\ UNCHANGED <<senderVars, brokerVars, last, consumerVars, verVars>>

----------------------------------------------------------------------------
(* next_version (src/bump_version.py).  A version string is the sequence of
   the numbers of its release segment; the empty string is no version. *)

MaxComp == 2
MaxRelease == 4

Versions == UNION {[1..n -> 0..MaxComp] : n \in 0..MaxRelease}
Parts == {"major", "minor", "patch", "build"}

\* Version(current).major / .minor / .micro: a missing component reads 0
major(v) == IF Len(v) >= 1 THEN v[1] ELSE 0
minor(v) == IF Len(v) >= 2 THEN v[2] ELSE 0
micro(v) == IF Len(v) >= 3 THEN v[3] ELSE 0

\* f"{v.major + 1}.0.0"
MajorBump(v) == <<major(v) + 1, 0, 0>>

MinorBumpKeepsPatch(v) == <<major(v), minor(v) + 1, micro(v)>>

\* f"{v.major}.{v.minor + 1}.0"
MinorBump(v) == <<major(v), minor(v) + 1, 0>>

\* f"{v.major}.{v.minor}.{v.micro + 1}"
PatchBump(v) == <<major(v), minor(v), micro(v) + 1>>

\* Version(current) raises InvalidVersion, a ValueError, before part is looked at
next_version(current, part) ==
    IF current = << >> THEN [raised |-> "InvalidVersion", value |-> << >>]
    ELSE IF part = "major" THEN [raised |-> "none", value |-> MajorBump(current)]
    ELSE IF part = "minor" THEN [raised |-> "none", value |-> MinorBump(current)]
    ELSE IF part = "patch" THEN [raised |-> "none", value |-> PatchBump(current)]
    ELSE [raised |-> "ValueError", value |-> << >>]

NoVersionCall == [current |-> << >>, part |-> "none"]
NoVersionResult == [raised |-> "none", value |-> << >>]

NextVersion ==
    /\ vin.part = "none"
    /\ \E current \in Versions, part \in Parts :
          /\ vin' = [current |-> current, part |-> part]
          /\ vout' = next_version(current, part)
    /\ UNCHANGED <<senderVars, brokerVars, last, consumerVars, fibVars>>

\* the script prints the result and exits
VersionDone ==
    /\ vin.part # "none"
    /\ vin' = NoVersionCall
    /\ vout' = NoVersionResult
    /\ UNCHANGED <<senderVars, brokerVars, last, consumerVars, fibVars>>

----------------------------------------------------------------------------
Init ==
    /\ pc = "new"
    /\ queue_type = "unset"
    /\ connection = 0
    /\ channel = 0
    /\ sqs_client = FALSE
    /\ attempt = 0
    /\ sleeps = 0
    /\ error = "none"
    /\ is_open = FALSE
    /\ chan_open = FALSE
    /\ orphans = 0
    /\ outbox = {}
    /\ last = Event("none", FALSE, "None")
    /\ arrived = << >>
    /\ live = << >>
    /\ cur = NoMsg
    /\ cpc = "idle"
    /\ dlq = << >>
    /\ acked = {}
    /\ analyzed = {}
    /\ sendAttempted = {}
    /\ fin = NoCall
    /\ fout = [levels |-> EmptyLevels, raised |-> FALSE]
    /\ vin = NoVersionCall
    /\ vout = NoVersionResult

Next ==
    \/ \E qt \in QueueTypes : Construct(qt)
    \/ ConnectAttempt
    \/ Sleep
    \/ Close
    \/ Flush
    \/ HealthCheck
    \/ BrokerDrop
    \/ BrokerCloseChannel
    \/ BrokerDropOrphan
    \/ \E kind \in MsgKinds : Arrive(kind)
    \/ Receive
    \/ Decode
    \/ Analyze
    \/ Send
    \/ Ack

Spec == Init /\ [][Next]_vars

NextFib ==
    \/ Calculate
    \/ Discard

SpecFib == Init /\ [][NextFib]_vars

NextVer ==
    \/ NextVersion
    \/ VersionDone

SpecVer == Init /\ [][NextVer]_vars

FairSpec ==
    Spec /\ WF_vars(Receive) /\ WF_vars(Decode) /\ WF_vars(Analyze)
         /\ WF_vars(Send) /\ WF_vars(Ack)

\* the constructor, too, runs on once it has started
LiveSpec == FairSpec /\ WF_vars(ConnectAttempt) /\ WF_vars(Sleep)

----------------------------------------------------------------------------
(* Properties *)

HoldsOpenConnection == connection # 0 /\ is_open

\* C1: a rabbitmq constructor makes at most 5 attempts, makes none after one
\* that succeeded, returns normally only with the connection and its channel
\* open, and after 5 failed attempts raises ConnectionError.
C1_ConnectBoundedOrFatal ==
    /\ attempt <= retries
    /\ pc \in {"connecting", "sleeping", "failed"} => channel = 0
    /\ (queue_type = "rabbitmq" /\ last.op = "__init__" /\ ~last.raised) =>
          /\ pc = "ready"
          /\ HoldsOpenConnection
          /\ channel = connection /\ chan_open
    /\ (queue_type = "rabbitmq" /\ attempt = retries /\ channel = 0
                                /\ pc # "sleeping") =>
          /\ pc = "failed"
          /\ error = "ConnectionError"
    /\ (queue_type = "rabbitmq" /\ pc = "failed") => attempt = retries

C1_Witness ==
    /\ pc = "failed" /\ error = "ConnectionError"
    /\ attempt = retries /\ connection # 0

\* C2: for both backends, a send_message that returned normally handed its
\* message to the backend: a failed publish always raises.
C2_SendFailureRaises ==
    (last.op = "send_message" /\ ~last.raised) => last.arg \in outbox

C2_Witness ==
    /\ last.op = "send_message" /\ last.raised
    /\ queue_type = "rabbitmq" /\ ~is_open
    /\ last.arg \notin outbox

\* C3: a decoded and analyzed message whose result did not reach the backend
\* is in the dead-letter destination unchanged, exactly once, and it is
\* acknowledged: it leaves the live queue and is not delivered again.
SendFailed == sendAttempted \ outbox

C3_DeadLettered(id) ==
    /\ Cardinality({i \in DOMAIN dlq : dlq[i].id = id}) = 1
    /\ \E i \in DOMAIN dlq : dlq[i] = arrived[id]
    /\ id \in acked => (cur.id # id /\ \A i \in DOMAIN live : live[i].id # id)

C3_SendFailureDeadLetters ==
    /\ [](\A id \in SendFailed : C3_DeadLettered(id))
    /\ \A id \in 1..MaxMsgs : (id \in SendFailed) ~> (id \in acked)

C3_Witness ==
    \E id \in SendFailed :
        /\ id \in acked
        /\ arrived[id].kind = "wellformed"
        /\ id \in analyzed

\* C4: a message that decodes is acknowledged only after its result was
\* passed to send_message.
C4_AckAfterSendAttempt ==
    \A id \in acked :
        arrived[id].kind # "undecodable" => id \in sendAttempted

C4_Witness ==
    \E id \in acked : arrived[id].kind # "undecodable" /\ id \in sendAttempted

\* C5: an undecodable message is never analyzed, and once decoding failed it
\* is in the dead-letter destination.
C5_DecodeFailureSkipsTransform ==
    \A id \in DOMAIN arrived :
        arrived[id].kind = "undecodable" =>
            /\ id \notin analyzed
            /\ id \notin sendAttempted
            /\ (id \in acked \/ (cur.id = id /\ cpc # "received")) =>
                  \E i \in DOMAIN dlq : dlq[i] = arrived[id]

C5_Witness ==
    \E id \in acked : arrived[id].kind = "undecodable"

\* C6: close() never raises and touches nothing but the open state of the
\* held connection; without an open connection it changes nothing; after it
\* the connection is not open, so a second close() is the no-op.
C6_CloseIdempotent ==
    [][(last'.op = "close" /\ UNCHANGED consumerVars) =>
          /\ ~last'.raised
          /\ UNCHANGED <<senderVars, orphans, outbox>>
          /\ ~HoldsOpenConnection => UNCHANGED <<is_open, chan_open>>
          /\ ~HoldsOpenConnection']_vars

C6_Witness ==
    /\ last.op = "close" /\ ~last.raised
    /\ queue_type = "sqs" /\ connection = 0

\* C7: on a constructed rabbitmq sender health_check() returns true exactly
\* when the held connection is open, and is false after close().
C7_HealthIsConnectionOpen ==
    (queue_type = "rabbitmq" /\ pc = "ready") =>
        /\ last.op = "health_check" =>
              (last.ret = "True" <=> HoldsOpenConnection)
        /\ last.op = "close" => ~health_check

C7_Witness ==
    /\ queue_type = "rabbitmq" /\ last.op = "health_check"
    /\ last.ret = "False" /\ connection # 0

\* C8: an unknown backend fails construction with ValueError before any
\* connection attempt and without a cloud-queue client.
C8_UnknownBackendFatal ==
    queue_type \notin {"unset", "rabbitmq", "sqs"} =>
        /\ pc = "failed" /\ error = "ValueError"
        /\ attempt = 0 /\ sleeps = 0 /\ orphans = 0
        /\ connection = 0 /\ channel = 0 /\ ~is_open /\ ~sqs_client

C8_Witness ==
    queue_type = "kafka" /\ pc = "failed" /\ last = Event("__init__", TRUE, "None")

\* the swing bounds of the last call
FinHigh == SwingHigh(fin.data, fin.swing_high)
FinLow == SwingLow(fin.data, fin.swing_low)
FinBoundsOrdered ==
    /\ fin.method # "none"
    /\ FinHigh.k = "num" /\ FinLow.k = "num"
    /\ FinHigh.v > FinLow.v

\* C9 as stated: with high > low every rounded retracement price is strictly
\* between low and high, and every rounded extension price is strictly above
\* high.
C9_StrictlyInside ==
    FinBoundsOrdered =>
        \A lab \in DOMAIN fout.levels :
            /\ lab.kind = "%" =>
                  (FinLow.v < fout.levels[lab] /\ fout.levels[lab] < FinHigh.v)
            /\ lab.kind = "x" => fout.levels[lab] > FinHigh.v

\* C9 amended: for bounds in whole cents with high > low every rounded
\* retracement price is in [low, high] and every rounded extension price is
\* at least high; the inequalities are strict when high - low >= 0.03.
C9_InsideAfterRounding ==
    FinBoundsOrdered =>
        \A lab \in DOMAIN fout.levels :
            /\ lab.kind = "%" =>
                  /\ FinLow.v <= fout.levels[lab] /\ fout.levels[lab] <= FinHigh.v
                  /\ FinHigh.v - FinLow.v >= 3 =>
                        (FinLow.v < fout.levels[lab] /\ fout.levels[lab] < FinHigh.v)
            /\ lab.kind = "x" =>
                  /\ fout.levels[lab] >= FinHigh.v
                  /\ FinHigh.v - FinLow.v >= 3 => fout.levels[lab] > FinHigh.v

C9_Witness ==
    /\ FinBoundsOrdered
    /\ fin.method = "retracement"
    /\ FinHigh.v - FinLow.v = 1
    /\ \E lab \in DOMAIN fout.levels : fout.levels[lab] = FinHigh.v

\* C10: when a bound has no override and the history gives no usable value
\* for it, the call returns the empty level set and raises nothing.
Usable(data, field) == \E i \in DOMAIN data : data[i][field].k = "num"

UndefinedBound ==
    \/ fin.swing_high = None /\ ~Usable(fin.data, "High")
    \/ fin.swing_low = None /\ ~Usable(fin.data, "Low")

C10_UndefinedBoundEmpty ==
    (fin.method # "none" /\ UndefinedBound) =>
        (DOMAIN fout.levels = {} /\ ~fout.raised)

C10_Witness ==
    /\ fin.method = "retracement" /\ UndefinedBound
    /\ fin.swing_high # None /\ fin.swing_low = None
    /\ Len(fin.data) > 0
    /\ DOMAIN fout.levels = {}

\* the listing of C11: label and ratio (in thousandths) of each retracement
\* level, ratio of each extension level
RefRetracement == {<<23, 236>>, <<38, 382>>, <<50, 500>>, <<61, 618>>, <<78, 786>>}
RefExtension == {1272, 1618, 2000, 2618}
ExampleHistory ==
    << [High |-> Num(11000), Low |-> Num(9500)],
       [High |-> Num(10500), Low |-> Num(9000)] >>

\* cents is x (thousandths of a cent) rounded to the nearest cent
Nearest(cents, x) == (cents * 1000 - x) \in (0 - 500)..500

\* C11: with both bounds defined, 'retracement' returns exactly the five
\* entries 23%, 38%, 50%, 61%, 78% valued high - (high - low) * r rounded to
\* cents, 'extension' exactly the four entries 1.272x, 1.618x, 2.000x, 2.618x
\* valued high + (high - low) * (r - 1) rounded to cents; the example history
\* gives 61% = 97.64 and 1.618x = 122.36.
C11_ReferenceMapping ==
    (fin.method # "none" /\ FinHigh.k = "num" /\ FinLow.k = "num") =>
        LET h == FinHigh.v
            d == FinHigh.v - FinLow.v
            lv == fout.levels
            example == fin.data = ExampleHistory /\ fin.swing_high = None
                                                 /\ fin.swing_low = None
        IN  /\ fin.method = "retracement" =>
                  /\ DOMAIN lv = {[kind |-> "%", n |-> e[1]] : e \in RefRetracement}
                  /\ Cardinality(DOMAIN lv) = 5
                  /\ \A e \in RefRetracement :
                        Nearest(lv[[kind |-> "%", n |-> e[1]]], h * 1000 - d * e[2])
                  /\ example => lv[[kind |-> "%", n |-> 61]] = 9764
            /\ fin.method = "extension" =>
                  /\ DOMAIN lv = {[kind |-> "x", n |-> r] : r \in RefExtension}
                  /\ Cardinality(DOMAIN lv) = 4
                  /\ \A r \in RefExtension :
                        Nearest(lv[[kind |-> "x", n |-> r]], h * 1000 + d * (r - 1000))
                  /\ example => lv[[kind |-> "x", n |-> 1618]] = 12236

C11_Witness ==
    /\ fin.data = ExampleHistory /\ fin.swing_high = None /\ fin.swing_low = None
    /\ fin.method = "extension"
    /\ fout.levels[[kind |-> "x", n |-> 1618]] = 12236

\* C12: flush() changes no field of the sender, nothing at the backends,
\* publishes nothing and raises nothing, for both backends.
C12_FlushNoOp ==
    [][(last'.op = "flush" /\ UNCHANGED consumerVars) =>
          /\ ~last'.raised
          /\ UNCHANGED <<senderVars, brokerVars>>]_vars

C12_Witness ==
    /\ last.op = "flush" /\ ~last.raised
    /\ queue_type = "rabbitmq" /\ is_open /\ chan_open

\* C13: for a parseable version next_version returns <major+1, 0, 0> for
\* 'major', <major, minor+1, 0> for 'minor' and <major, minor, patch+1> for
\* 'patch'; for any other part it raises a ValueError and returns nothing.
Component(i) == IF i <= Len(vin.current) THEN vin.current[i] ELSE 0

C13_NextVersion ==
    vin.part # "none" =>
        /\ (vin.current # << >> /\ vin.part = "major") =>
              (vout.raised = "none" /\ vout.value = <<Component(1) + 1, 0, 0>>)
        /\ (vin.current # << >> /\ vin.part = "minor") =>
              (vout.raised = "none"
                  /\ vout.value = <<Component(1), Component(2) + 1, 0>>)
        /\ (vin.current # << >> /\ vin.part = "patch") =>
              (vout.raised = "none"
                  /\ vout.value = <<Component(1), Component(2), Component(3) + 1>>)
        /\ vin.part \notin {"major", "minor", "patch"} =>
              (vout.raised \in {"ValueError", "InvalidVersion"} /\ vout.value = << >>)

C13_Witness ==
    /\ vin.part = "minor" /\ Len(vin.current) >= 3 /\ vin.current[3] > 0
    /\ vout.raised = "none" /\ vout.value[3] = 0

\* C14: a supplied swing_high / swing_low is the bound used; a bound that is
\* not supplied is the maximum High / minimum Low over the whole history,
\* whatever the other argument is; the returned levels are those of these
\* bounds.
NumsOf(field) ==
    {fin.data[i][field].v :
        i \in {j \in DOMAIN fin.data : fin.data[j][field].k = "num"}}
HasText(field) == \E i \in DOMAIN fin.data : fin.data[i][field].k = "str"

RefHigh ==
    IF fin.swing_high # None THEN fin.swing_high
    ELSE IF NumsOf("High") = {} THEN None
    ELSE Num(CHOOSE x \in NumsOf("High") : \A y \in NumsOf("High") : y <= x)

RefLow ==
    IF fin.swing_low # None THEN fin.swing_low
    ELSE IF NumsOf("Low") = {} THEN None
    ELSE Num(CHOOSE x \in NumsOf("Low") : \A y \in NumsOf("Low") : x <= y)

C14_SwingBounds ==
    (/\ fin.method # "none"
     /\ ~(fin.swing_high = None /\ HasText("High"))
     /\ ~(fin.swing_low = None /\ HasText("Low"))) =>
        /\ FinHigh = RefHigh
        /\ FinLow = RefLow
        /\ (RefHigh # None /\ RefLow # None /\ fin.method = "extension") =>
              fout.levels[[kind |-> "x", n |-> 2000]] = 2 * RefHigh.v - RefLow.v
        /\ (RefHigh # None /\ RefLow # None /\ fin.method = "retracement") =>
              Nearest(fout.levels[[kind |-> "%", n |-> 50]],
                      500 * (RefHigh.v + RefLow.v))

C14_Witness ==
    /\ fin.method = "extension"
    /\ fin.swing_high # None /\ fin.swing_low = None
    /\ NumsOf("High") # {} /\ fin.swing_high.v \notin NumsOf("High")
    /\ Cardinality(NumsOf("Low")) = 2
    /\ fout.levels[[kind |-> "x", n |-> 2000]] = 2 * fin.swing_high.v - RefLow.v

\* C15 as stated: a connection attempt is made whenever the connection has
\* failed, the sender closes the connection only in close(), and
\* send_message, flush and health_check leave connection and channel alone.
SenderLeavesConnection ==
    /\ (pc = "ready" /\ is_open /\ ~is_open') => last'.op \in {"close", "broker_drop"}
    /\ (pc = "ready" /\ chan_open /\ ~chan_open') =>
          last'.op \in {"close", "broker_drop", "broker_close_channel"}
    /\ pc = "ready" => (connection' = connection /\ channel' = channel)
    /\ last'.op \in {"send_message", "flush", "health_check"} =>
          UNCHANGED <<connection, channel, is_open, chan_open>>

ConnectionLost ==
    /\ queue_type = "rabbitmq" /\ pc = "ready"
    /\ last.op = "broker_drop" /\ ~is_open

C15_RetriedWheneverFailed ==
    /\ [][SenderLeavesConnection]_vars
    /\ ConnectionLost ~> (pc = "connecting")

\* C15 amended: connection attempts are made only inside the constructor,
\* where a failed attempt is followed by another until one succeeds or 5 have
\* failed; once the constructor has returned the sender never attempts to
\* connect again; the sender closes the connection only in close(), and
\* send_message, flush and health_check leave connection and channel alone.
C15_ConnectOnlyAtStartup ==
    [][/\ SenderLeavesConnection
       /\ attempt' # attempt => pc = "connecting"
       /\ (pc = "sleeping" /\ pc' # pc) =>
             pc' = IF attempt < retries THEN "connecting" ELSE "failed"
       /\ pc = "ready" => (pc' = "ready" /\ attempt' = attempt)]_vars

C15_Witness ==
    /\ queue_type = "rabbitmq" /\ pc = "ready" /\ attempt > 1
    /\ connection # 0 /\ ~is_open
    /\ last.op = "send_message" /\ last.raised

\* C16: during the connect loop every retry is preceded by exactly one wait,
\* a wait begins only when another attempt follows it, there is no wait after
\* the attempt that succeeded, and a constructor that raises after 5 failed
\* attempts has waited exactly 4 times.
C16_WaitThenRetry ==
    queue_type = "rabbitmq" =>
        /\ pc = "connecting" => sleeps = attempt
        /\ pc = "sleeping" => attempt < retries
        /\ pc = "ready" => sleeps = attempt - 1
        /\ pc = "failed" => sleeps = retries - 1

\* C17: during and after connect() the only open connection this sender has
\* opened is the one it holds: a connection whose channel could not be opened
\* is closed before the next attempt starts and before the fatal error is
\* raised.
C17_NoStrayOpenConnection ==
    /\ orphans = 0
    /\ (pc = "connecting" /\ attempt > 0) => ~is_open
    /\ pc = "failed" => ~is_open

====
